---- MODULE Spec2Model ----
(***************************************************************************)
(* Elixir relationships (elixir/relationships.py): inverse resolution,     *)
(* foreign-key creation, bridge tables and property creation, as a state   *)
(* machine over a set of declared relationships.                           *)
(*                                                                         *)
(* Names (table names, column names, relationship names) are sequences of  *)
(* one-character strings, so that formatting, concatenation and the        *)
(* lexicographic comparison of Python strings are computed, not assumed.   *)
(***************************************************************************)
EXTENDS Naturals, Sequences, FiniteSets, TLC

VARIABLES
    relationships,          \* the declared descriptors, in attach order
    phase,                  \* build phase: "pk", "nonpk", "tables", "props", "done"
    called,                 \* descriptors whose phase method has been called in this phase
    _inverse,               \* Relationship._inverse (0 is None)
    columns,                \* entity -> descriptor columns
    constraints,            \* entity -> descriptor constraints
    foreign_key,            \* ManyToOne.foreign_key (column keys)
    primaryjoin_clauses,    \* ManyToOne / ManyToMany .primaryjoin_clauses
    secondaryjoin_clauses,  \* ManyToMany.secondaryjoin_clauses
    secondary_table,        \* ManyToMany.secondary_table (0 is None, else index in tables)
    tables,                 \* the Table objects constructed by ManyToMany
    property,               \* Relationship.property (NoProp is None)
    backref,                \* Relationship.backref (NoProp is None)
    pk_col_done,            \* entity -> "no" | "busy" | "done"
    err,                    \* the exception that aborted the build, or NoErr
    _target,                \* Relationship._target (NoTarget is None)
    join_args,              \* the arguments of a call of _get_join_clauses
    join_ret                \* what that call returned, NoRet before it

vars == <<relationships, phase, called, _inverse, columns, constraints,
          foreign_key, primaryjoin_clauses, secondaryjoin_clauses, secondary_table,
          tables, property, backref, pk_col_done, err, _target, join_args, join_ret>>

-----------------------------------------------------------------------------
(* Bounds of the model *)

\* largest number of relationships declared in one configuration
MaxRels == 3

-----------------------------------------------------------------------------
(* Strings *)

NoName == <<>>

\* the lowercase letters, from code point 97 on
Letters == <<"a", "b", "c", "d", "e", "f", "g", "h", "i", "j", "k", "l", "m",
             "n", "o", "p", "q", "r", "s", "t", "u", "v", "w", "x", "y", "z">>

\* code points of the characters of names (Python compares str by code point)
Ord == ("." :> 46) @@ ("1" :> 49) @@ ("2" :> 50) @@ ("_" :> 95) @@
       [c \in {"a", "b", "c", "d", "e", "f", "g", "h", "i", "j", "k", "l", "m",
                "n", "o", "p", "q", "r", "s", "t", "u", "v", "w", "x", "y", "z"} |->
          CHOOSE n \in 97..122 : Letters[n - 96] = c]

\* Python's  a < b  on str
RECURSIVE StrLess(_, _)
StrLess(a, b) ==
    IF b = <<>> THEN FALSE
    ELSE IF a = <<>> THEN TRUE
    ELSE IF Ord[Head(a)] < Ord[Head(b)] THEN TRUE
    ELSE IF Ord[Head(a)] > Ord[Head(b)] THEN FALSE
    ELSE StrLess(Tail(a), Tail(b))

\* Python's  fmt % mapping : every %(key)s placeholder replaced by mapping[key]
RECURSIVE Format(_, _)
Format(fmt, args) ==
    IF fmt = <<>> THEN <<>>
    ELSE (IF Head(fmt) \in DOMAIN args THEN args[Head(fmt)] ELSE <<Head(fmt)>>)
         \o Format(Tail(fmt), args)

\* Python's  sep.join(parts)
RECURSIVE Join(_, _)
Join(sep, parts) ==
    IF parts = <<>> THEN <<>>
    ELSE IF Len(parts) = 1 THEN parts[1]
    ELSE parts[1] \o sep \o Join(sep, Tail(parts))

\* options.FKCOL_NAMEFORMAT = "%(relname)s_%(key)s"
FKCOL_NAMEFORMAT == <<"relname", "_", "key">>

\* options.CONSTRAINT_NAMEFORMAT = "%(tablename)s_%(colnames)s_fk"
CONSTRAINT_NAMEFORMAT == <<"tablename", "_", "colnames", "_", "f", "k">>

\* options.M2MCOL_NAMEFORMAT = "%(tablename)s_%(key)s"
M2MCOL_NAMEFORMAT == <<"tablename", "_", "key">>

-----------------------------------------------------------------------------
(* Entities: the schema side the relationships are declared against *)

\* sqlalchemy.Column(name, type, **kwargs): nullable defaults to not primary_key
Column(name, type, kwargs) ==
    LET pk == IF "primary_key" \in DOMAIN kwargs THEN kwargs["primary_key"] ELSE FALSE
    IN  [key |-> name, type |-> type, primary_key |-> pk,
         nullable |-> IF "nullable" \in DOMAIN kwargs THEN kwargs["nullable"] ELSE ~pk]

PkKw == [primary_key |-> TRUE]

EntityNames == {"Person", "Pet", "User", "Note"}

\* the entities of the declaring scope, with the fields they declare themselves;
\* User is autoloaded (its table is reflected), Note has no primary key
Entities ==
    [e \in EntityNames |->
       CASE e = "Person" ->
              [lname |-> <<"p","e","r","s","o","n">>, tablename |-> <<"p","e","r","s","o","n">>,
               autoload |-> FALSE, schema |-> NoName,
               fields |-> << Column(<<"i","d">>, "Integer", PkKw) >>,
               reflected |-> << >>]
         [] e = "Pet" ->
              [lname |-> <<"p","e","t">>, tablename |-> <<"p","e","t">>,
               autoload |-> FALSE, schema |-> NoName,
               fields |-> << Column(<<"i","d">>, "Integer", PkKw),
                             Column(<<"t","a","g">>, "String", PkKw) >>,
               reflected |-> << >>]
         [] e = "User" ->
              [lname |-> <<"u","s","e","r">>, tablename |-> <<"u","s","e","r">>,
               autoload |-> TRUE, schema |-> NoName,
               fields |-> << Column(<<"u","s","e","r","_","i","d">>, "Integer", PkKw),
                             Column(<<"p","i","d">>, "Integer", << >>) >>,
               reflected |-> << [columns |-> << <<"p","i","d">> >>,
                                 refcolumns |-> << <<"p","e","r","s","o","n",".","i","d">> >>,
                                 name |-> <<"f","k">>,
                                 onupdate |-> "None", ondelete |-> "None"] >>]
         [] e = "Note" ->
              [lname |-> <<"n","o","t","e">>, tablename |-> <<"n","o","t","e">>,
               autoload |-> FALSE, schema |-> NoName,
               fields |-> << Column(<<"t","e","x","t">>, "String", << >>) >>,
               reflected |-> << >>] ]

-----------------------------------------------------------------------------
(* Declarations: Relationship.__init__ and the __init__ of the four kinds *)

Opt(kwargs, k, default) == IF k \in DOMAIN kwargs THEN kwargs[k] ELSE default

\* ManyToOne.__init__: 'required' and 'primary_key' go to column_kwargs only when given
ColumnKwargs(kwargs) ==
    (IF "required" \in DOMAIN kwargs THEN [nullable |-> ~kwargs["required"]] ELSE << >>) @@
    (IF "primary_key" \in DOMAIN kwargs THEN [primary_key |-> kwargs["primary_key"]] ELSE << >>) @@
    [index |-> TRUE]

\* a descriptor after  rel = Kind(of_kind, **kwargs); rel.attach(entity, name)
Relationship(kind, entity, name, of_kind, kwargs) ==
    [kind |-> kind, entity |-> entity, name |-> name, of_kind |-> of_kind,
     inverse_name   |-> Opt(kwargs, "inverse", NoName),
     colname        |-> Opt(kwargs, "colname", << >>),
     column_kwargs  |-> ColumnKwargs(kwargs),
     user_tablename |-> Opt(kwargs, "tablename", NoName),
     local_side     |-> Opt(kwargs, "local_side", << >>),
     remote_side    |-> Opt(kwargs, "remote_side", << >>),
     ondelete       |-> Opt(kwargs, "ondelete", "None"),
     onupdate       |-> Opt(kwargs, "onupdate", "None"),
     column_format  |-> Opt(kwargs, "column_format", M2MCOL_NAMEFORMAT)]

ManyToOne(entity, name, of_kind, kwargs) == Relationship("ManyToOne", entity, name, of_kind, kwargs)

OneToOne(entity, name, of_kind, kwargs) == Relationship("OneToOne", entity, name, of_kind, kwargs)

OneToMany(entity, name, of_kind, kwargs) == Relationship("OneToMany", entity, name, of_kind, kwargs)

ManyToMany(entity, name, of_kind, kwargs) == Relationship("ManyToMany", entity, name, of_kind, kwargs)

\* the declarations a configuration of parent-child relationships is drawn from
KeyDecls == <<
    ManyToOne("Pet", <<"o","w","n","e","r">>, "Person", << >>),
    ManyToOne("Pet", <<"f","e","e","d","e","r">>, "Person", << >>),
    OneToMany("Person", <<"p","e","t","s">>, "Pet", << >>),
    ManyToOne("Person", <<"p","a","r","e","n","t">>, "Person", << >>),
    OneToMany("Person", <<"c","h","i","l","d","r","e","n">>, "Person", << >>),
    ManyToOne("Pet", <<"v","e","t">>, "Person",
              [inverse |-> <<"c","a","s","e","s">>, required |-> TRUE]),
    ManyToOne("Pet", <<"w","a","l","k","e","r">>, "Person",
              [inverse |-> <<"c","a","s","e","s">>]),
    OneToMany("Person", <<"c","a","s","e","s">>, "Pet", [inverse |-> <<"v","e","t">>]),
    ManyToOne("Pet", <<"k","e","e","p","e","r">>, "User", << >>),
    ManyToOne("Person", <<"p","e","t">>, "Pet", [colname |-> << <<"c","1">>, <<"c","2">> >>]),
    ManyToOne("Person", <<"f","a","v">>, "Pet", [colname |-> << <<"c","1">> >>]),
    ManyToOne("Pet", <<"b","o","s","s">>, "Person", [primary_key |-> TRUE]),
    ManyToOne("Pet", <<"n","o","t","e">>, "Note", << >>),
    ManyToOne("User", <<"p","a","l">>, "Person", << >>),
    OneToOne("Person", <<"m","a","t","e">>, "Pet", << >>),
    ManyToOne("Pet", <<"h","o","s","t">>, "Person",
              [primary_key |-> TRUE, required |-> FALSE])
>>

\* the declarations a configuration of many-to-many relationships is drawn from
M2MDecls == <<
    ManyToMany("Person", <<"p","e","t","s">>, "Pet", [onupdate |-> "cascade"]),
    ManyToMany("Pet", <<"o","w","n","e","r","s">>, "Person", [ondelete |-> "cascade"]),
    ManyToMany("Person", <<"t","o","y","s">>, "Pet", << >>),
    ManyToMany("Person", <<"c","a","t","s">>, "Pet", [inverse |-> <<"o","w","n","e","r","s">>]),
    ManyToMany("Person", <<"d","o","g","s">>, "Pet", [inverse |-> <<"o","w","n","e","r","s">>]),
    ManyToMany("Person", <<"f","r","i","e","n","d","s">>, "Person", << >>),
    ManyToMany("Person", <<"f","a","n","s">>, "Person", << >>),
    ManyToMany("Person", <<"i","d","o","l","s">>, "Person", [inverse |-> <<"f","a","n","s">>]),
    ManyToMany("Person", <<"l","i","n","k","s">>, "Pet", [column_format |-> <<"key">>]),
    ManyToMany("Pet", <<"n","o","t","e","s">>, "Note", [tablename |-> <<"p","n">>]),
    ManyToMany("User", <<"p","a","l","s">>, "User",
               [tablename |-> <<"p","a","l","s">>, local_side |-> << <<"a">> >>]),
    ManyToMany("User", <<"m","a","t","e","s">>, "Person", << >>)
>>

\* declarations at the corners of key creation: names that run into each other,
\* self-referential and mutual primary keys, targets without primary key, explicit
\* column lists of the wrong length, an inverse of the wrong kind
CornerDecls == <<
    ManyToOne("Pet", <<"k","e","e","p","e","r">>, "User", << >>),
    ManyToOne("Pet", <<"k","e","e","p","e","r","_","u","s","e","r">>, "Person", << >>),
    ManyToOne("Person", <<"p","a","r","e","n","t">>, "Person", << >>),
    OneToMany("Person", <<"c","h","i","l","d","r","e","n">>, "Person", << >>),
    ManyToOne("Pet", <<"m","o","t","h","e","r">>, "Pet", << >>),
    ManyToOne("Pet", <<"b","o","s","s">>, "Person", [primary_key |-> TRUE]),
    ManyToOne("Person", <<"l","o","r","d">>, "Pet", [primary_key |-> TRUE]),
    ManyToOne("Person", <<"t","w","i","n">>, "Person", [primary_key |-> TRUE]),
    ManyToOne("Pet", <<"n","o","t","e">>, "Note", << >>),
    ManyToOne("Pet", <<"m","e","m","o">>, "Note", [colname |-> << <<"c","1">> >>]),
    ManyToOne("Person", <<"f","a","v">>, "Pet", [colname |-> << <<"c","1">> >>]),
    OneToOne("Person", <<"h","e","i","r">>, "Person",
             [inverse |-> <<"c","h","i","l","d","r","e","n">>])
>>

\* the tables of the database that autoloaded entities reflect bridge tables from
Database ==
    [name \in { <<"p","a","l","s">> } |->
       [columns |-> << Column(<<"a">>, "Integer", PkKw), Column(<<"b">>, "Integer", PkKw) >>,
        constraints |-> <<
            [columns |-> << <<"a">> >>,
             refcolumns |-> << <<"u","s","e","r",".","u","s","e","r","_","i","d">> >>,
             name |-> <<"f","k","a">>, onupdate |-> "None", ondelete |-> "None"],
            [columns |-> << <<"b">> >>,
             refcolumns |-> << <<"u","s","e","r",".","u","s","e","r","_","i","d">> >>,
             name |-> <<"f","k","b">>, onupdate |-> "None", ondelete |-> "None"] >>]]

RECURSIVE SortedSeq(_)
SortedSeq(S) ==
    IF S = {} THEN << >>
    ELSE LET m == CHOOSE x \in S : \A y \in S : x <= y
         IN  <<m>> \o SortedSeq(S \ {m})

\* the configurations over a pool: up to MaxRels declarations, in declaration order,
\* no two of them the same attribute of the same entity
Configurations(pool) ==
    { [i \in 1..Len(SortedSeq(S)) |-> pool[SortedSeq(S)[i]]] :
        S \in { T \in SUBSET (1..Len(pool)) :
                  /\ T # {}
                  /\ Cardinality(T) <= MaxRels
                  /\ \A a, b \in T : (a # b) =>
                        ~(pool[a].entity = pool[b].entity /\ pool[a].name = pool[b].name) } }

-----------------------------------------------------------------------------
(* State *)

NoneRel == 0
NoTable == 0
NoProp == [set |-> FALSE]
NoErr == [kind |-> "none", rel |-> 0]
NoTarget == "None"
NoArgs == [called |-> FALSE]
NoRet == [returned |-> FALSE]

Rels == 1..Len(relationships)

Error(kind, r) == [kind |-> kind, rel |-> r]

\* nothing resolved, nothing created
Unbuilt ==
    /\ phase = "pk"
    /\ called = {}
    /\ _inverse = [r \in Rels |-> NoneRel]
    /\ columns = [e \in EntityNames |-> Entities[e].fields]
    /\ constraints = [e \in EntityNames |-> Entities[e].reflected]
    /\ foreign_key = [r \in Rels |-> << >>]
    /\ primaryjoin_clauses = [r \in Rels |-> << >>]
    /\ secondaryjoin_clauses = [r \in Rels |-> << >>]
    /\ secondary_table = [r \in Rels |-> NoTable]
    /\ tables = << >>
    /\ property = [r \in Rels |-> NoProp]
    /\ backref = [r \in Rels |-> NoProp]
    /\ pk_col_done = [e \in EntityNames |-> "no"]
    /\ err = NoErr
    /\ _target = [r \in Rels |-> NoTarget]

\* _get_join_clauses has not been called
NoCall == join_args = NoArgs /\ join_ret = NoRet

\* the state before any build phase has run
InitOver(pool) ==
    /\ relationships \in Configurations(pool)
    /\ Unbuilt
    /\ NoCall

Init == InitOver(KeyDecls)

InitM2M == InitOver(M2MDecls)

InitCorner == InitOver(CornerDecls)

-----------------------------------------------------------------------------
(* Inverse resolution *)

\* Relationship.target where of_kind is the entity itself (lines 420-421)
target(r) == relationships[r].of_kind

\* match_type_of of the four kinds (OneToMany inherits OneToOne's)
match_type_of(self, other) ==
    CASE relationships[self].kind = "ManyToOne" ->
            relationships[other].kind \in {"OneToMany", "OneToOne"}
      [] relationships[self].kind \in {"OneToOne", "OneToMany"} ->
            relationships[other].kind = "ManyToOne"
      [] relationships[self].kind = "ManyToMany" ->
            relationships[other].kind = "ManyToMany"

\* Relationship.is_inverse, and ManyToMany.is_inverse on top of it
is_inverse(self, other) ==
    /\ other # self
    /\ match_type_of(self, other)
    /\ relationships[self].entity = target(other)
    /\ relationships[other].entity = target(self)
    /\ \/ relationships[self].inverse_name = relationships[other].name
       \/ relationships[self].inverse_name = NoName
    /\ \/ relationships[other].inverse_name = relationships[self].name
       \/ relationships[other].inverse_name = NoName
    /\ relationships[self].kind = "ManyToMany" =>
          \/ relationships[self].user_tablename = relationships[other].user_tablename
          \/ /\ relationships[self].user_tablename = NoName
             /\ relationships[other].user_tablename = NoName

\* the one element of a set that has one, NoneRel for any other set
TheOne(S) == IF Cardinality(S) = 1 THEN CHOOSE o \in S : TRUE ELSE NoneRel

\* EntityDescriptor.find_relationship: the entity's relationship of that name, or None
find_relationship(e, name) ==
    TheOne({ o \in Rels : relationships[o].entity = e /\ relationships[o].name = name })

\* the outcome of the Inverse Matcher over the set of valid inverses it found
Matched(matching) ==
    [res |-> TheOne(matching),
     err |-> IF Cardinality(matching) > 1 THEN "AmbiguousInverse" ELSE "none"]

\* EntityDescriptor.get_inverse_relation (the Inverse Matcher): the one relationship
\* of the entity that is a valid inverse of rel; none when there is none; an error
\* when there are several
get_inverse_relation(e, rel) ==
    Matched({ o \in Rels : relationships[o].entity = e /\ is_inverse(o, rel) })

\* self._inverse = inverse; inverse._inverse = self  (lines 454-456)
SetInverse(inv, r, found) == [inv EXCEPT ![r] = found, ![found] = r]

\* InverseByName with a fault: the kind of the named relationship is not looked at
InverseByNameUnchecked(inv, r, found) ==
    IF found = NoneRel
    THEN [inv |-> inv, res |-> NoneRel, err |-> "InverseNotFound"]
    ELSE [inv |-> SetInverse(inv, r, found), res |-> found, err |-> "none"]

\* Relationship.inverse with an explicit inverse name, found being
\* what find_relationship returned (lines 443-450, 454-456)
InverseByName(inv, r, found) ==
    IF found = NoneRel
    THEN [inv |-> inv, res |-> NoneRel, err |-> "InverseNotFound"]
    ELSE IF ~match_type_of(r, found)
    THEN [inv |-> inv, res |-> NoneRel, err |-> "TypeMismatch"]
    ELSE [inv |-> SetInverse(inv, r, found), res |-> found, err |-> "none"]

\* InverseByMatch with a fault: what get_inverse_relation raises is swallowed
InverseByMatchSilent(inv, r, got) ==
    IF got.res = NoneRel
    THEN [inv |-> inv, res |-> NoneRel, err |-> "none"]
    ELSE [inv |-> SetInverse(inv, r, got.res), res |-> got.res, err |-> "none"]

\* Relationship.inverse without an inverse name, got being what
\* get_inverse_relation returned or raised (lines 452-456)
InverseByMatch(inv, r, got) ==
    IF got.err # "none" \/ got.res = NoneRel
    THEN [inv |-> inv, res |-> NoneRel, err |-> got.err]
    ELSE [inv |-> SetInverse(inv, r, got.res), res |-> got.res, err |-> "none"]

\* the property Relationship.inverse, read with the _inverse fields inv:
\* the value returned (res), the _inverse fields afterwards, the exception raised
inverse(inv, r) ==
    IF inv[r] # NoneRel THEN [inv |-> inv, res |-> inv[r], err |-> "none"]
    ELSE IF relationships[r].inverse_name # NoName
    THEN InverseByName(inv, r, find_relationship(target(r), relationships[r].inverse_name))
    ELSE InverseByMatch(inv, r, get_inverse_relation(target(r), r))

-----------------------------------------------------------------------------
(* The Join-Clause Deriver *)

\* None, where a list of column names is expected
NoCols == << NoName >>

\* the sequence without its i-th element
Drop(seq, i) == [k \in 1..(Len(seq) - 1) |-> IF k < i THEN seq[k] ELSE seq[k + 1]]

\* the position of a least name of a non-empty list of names
Least(names) ==
    CHOOSE i \in 1..Len(names) :
        \A j \in 1..Len(names) : ~StrLess(names[j], names[i])

RECURSIVE SortFrom(_, _)
SortFrom(names, least) ==
    IF names = << >> THEN << >>
    ELSE IF Len(names) = 1 THEN names
    ELSE <<names[least]>> \o SortFrom(Drop(names, least), Least(Drop(names, least)))

\* SortNames with a fault: the list is left as it is
NoSort(names) == names

\* list.sort() on a list of names
SortNames(names) == IF names = << >> THEN << >> ELSE SortFrom(names, Least(names))

\* position of the last "." of a column path, 0 when it has none
RECURSIVE LastDot(_)
LastDot(path) ==
    IF path = << >> THEN 0
    ELSE IF path[Len(path)] = "." THEN Len(path)
    ELSE LastDot(SubSeq(path, 1, Len(path) - 1))

\* one foreign key of a constraint: local column, referenced table and column
Element(parent, path, dot) ==
    [parent |-> parent,
     table  |-> SubSeq(path, 1, dot - 1),
     column |-> SubSeq(path, dot + 1, Len(path))]

\* constraint.elements
Elements(constraint) ==
    [i \in 1..Len(constraint.columns) |->
        Element(constraint.columns[i], constraint.refcolumns[i],
                LastDot(constraint.refcolumns[i]))]

\* the predicate  left == right  between two columns
Eq(ltable, lkey, rtable, rkey) ==
    [left |-> [table |-> ltable, key |-> lkey], right |-> [table |-> rtable, key |-> rkey]]

RECURSIVE Concat(_)
Concat(seqs) == IF seqs = << >> THEN << >> ELSE Head(seqs) \o Concat(Tail(seqs))

\* one constraint as the scan of _get_join_clauses sees it (lines 879-890):
\* whether all its columns point to target_table, and its sorted local column names
Scanned(elements, target_table) ==
    [use |-> \A i \in 1..Len(elements) : elements[i].table = target_table,
     cols |-> SortNames([i \in 1..Len(elements) |-> elements[i].parent]),
     elements |-> elements]

\* the constraints that enter constraint_map, in the order they are scanned
UsedConstraints(cons, target_table) ==
    SelectSeq([i \in 1..Len(cons) |-> Scanned(Elements(cons[i]), target_table)],
              LAMBDA c : c.use)

\* constraint_map as the list of its items: one per key, the last constraint
\* scanned with that key, the keys in the order they were first inserted
ConstraintMap(used) ==
    LET firsts == SelectSeq([i \in 1..Len(used) |-> i],
                            LAMBDA i : \A j \in 1..(i - 1) : used[j].cols # used[i].cols)
    IN  [n \in 1..Len(firsts) |->
            used[CHOOSE i \in 1..Len(used) :
                    /\ used[i].cols = used[firsts[n]].cols
                    /\ \A j \in (i + 1)..Len(used) : used[j].cols # used[i].cols]]

\* lines 900-902
InPrimary(cols, cols1, cols2, keys) ==
    \/ cols = cols1
    \/ /\ cols # cols2
       /\ cols1 = << >>
       /\ (cols2 \in keys \/ cols2 = NoCols)

\* line 904
InSecondary(cols, cols1, cols2, keys) ==
    \/ cols = cols2
    \/ (cols2 = << >> /\ cols1 \in keys)

\* the predicates of the chosen items, in order (lines 908-909)
Predicates(items, local_name) ==
    Concat([n \in 1..Len(items) |->
              [i \in 1..Len(items[n].elements) |->
                  Eq(local_name, items[n].elements[i].parent,
                     items[n].elements[i].table, items[n].elements[i].column)]])

\* JoinClauses with a fault: the secondary join is an 'if' of its own
JoinClausesBoth(items, keys, cols1, cols2, local_name) ==
    << Predicates(SelectSeq(items, LAMBDA c : InPrimary(c.cols, cols1, cols2, keys)),
                  local_name),
       Predicates(SelectSeq(items, LAMBDA c : InSecondary(c.cols, cols1, cols2, keys)),
                  local_name) >>

\* lines 899-910 over the items of constraint_map
JoinClauses(items, keys, cols1, cols2, local_name) ==
    << Predicates(SelectSeq(items, LAMBDA c : InPrimary(c.cols, cols1, cols2, keys)),
                  local_name),
       Predicates(SelectSeq(items, LAMBDA c : /\ ~InPrimary(c.cols, cols1, cols2, keys)
                                              /\ InSecondary(c.cols, cols1, cols2, keys)),
                  local_name) >>

KeysOf(items) == { items[n].cols : n \in 1..Len(items) }

JoinClausesOver(items, cols1, cols2, local_name) ==
    JoinClauses(items, KeysOf(items), cols1, cols2, local_name)

\* _get_join_clauses; local_table is [name, constraints]
_get_join_clauses(local_table, local_cols1, local_cols2, target_table) ==
    JoinClausesOver(ConstraintMap(UsedConstraints(local_table.constraints, target_table)),
                    SortNames(local_cols1),
                    IF local_cols2 # NoCols THEN SortNames(local_cols2) ELSE NoCols,
                    local_table.name)

-----------------------------------------------------------------------------
(* Key creation: create_pk_cols, create_non_pk_cols, create_keys *)

\* the part of the state that key creation reads and writes
KeyState ==
    [inv |-> _inverse, columns |-> columns, constraints |-> constraints,
     foreign_key |-> foreign_key, primaryjoin_clauses |-> primaryjoin_clauses,
     pk_col_done |-> pk_col_done, err |-> err]

\* EntityDescriptor.primary_keys: the descriptor's primary-key columns, in order
primary_keys(cols, e) == SelectSeq(cols[e], LAMBDA c : c.primary_key)

\* the indices of the relationships attached to entity e, in attach order
RelationshipsOf(e) ==
    SelectSeq([i \in 1..Len(relationships) |-> i], LAMBDA i : relationships[i].entity = e)

\* ForeignKeyConstraint(columns, refcolumns, name=..., onupdate=..., ondelete=...)
ForeignKeyConstraint(cols, refcols, name, onupdate, ondelete) ==
    [columns |-> cols, refcolumns |-> refcols, name |-> name,
     onupdate |-> onupdate, ondelete |-> ondelete]

\* OneToOne_keys with a fault: a missing inverse is accepted
OneToOne_keys_lenient(st, r, i) ==
    IF i.err # "none" THEN [st EXCEPT !.err = Error(i.err, r)]
    ELSE [st EXCEPT !.inv = i.inv]

\* OneToOne.create_keys, i being what reading self.inverse gave (lines 630-639)
OneToOne_keys(st, r, i) ==
    IF i.err # "none" THEN [st EXCEPT !.err = Error(i.err, r)]
    ELSE IF i.res = NoneRel THEN [st EXCEPT !.err = Error("MissingInverse", r)]
    ELSE [st EXCEPT !.inv = i.inv]

\* OneToOne.create_keys (inherited by OneToMany)
OneToOne_create_keys(st, r, pk) == OneToOne_keys(st, r, inverse(st.inv, r))

\* FkColName with a fault: the name of the relationship is left out of the name
FkColNameNoRel(r, key_num, pk_col) ==
    IF relationships[r].colname # << >>
    THEN relationships[r].colname[key_num]
    ELSE pk_col.key

\* FkColName with a fault: the key of the target column is left out of the name
FkColNameNoKey(r, key_num, pk_col) ==
    IF relationships[r].colname # << >>
    THEN relationships[r].colname[key_num]
    ELSE relationships[r].name

\* the name of the i-th foreign-key column of ManyToOne r (lines 564-569)
FkColName(r, key_num, pk_col) ==
    IF relationships[r].colname # << >>
    THEN relationships[r].colname[key_num]
    ELSE Format(FKCOL_NAMEFORMAT, [relname |-> relationships[r].name, key |-> pk_col.key])

\* the path a foreign key points to (lines 585-589)
TargetPath(e, pk_col) ==
    IF Entities[e].schema # NoName
    THEN Entities[e].schema \o <<".">> \o Entities[e].tablename \o <<".">> \o pk_col.key
    ELSE Entities[e].tablename \o <<".">> \o pk_col.key

\* the constraint name CONSTRAINT_NAMEFORMAT gives (lines 598-600)
FkName(tablename, fk_colnames) ==
    Format(CONSTRAINT_NAMEFORMAT,
           [tablename |-> tablename, colnames |-> Join(<<"_">>, fk_colnames)])

\* lines 595-605: the constraint over the created columns cols
AddForeignKey(st, r, pks, cols) ==
    [st EXCEPT
       !.columns[relationships[r].entity] = @ \o cols,
       !.foreign_key[r] = cols,
       !.primaryjoin_clauses[r] =
           [i \in 1..Len(pks) |->
               Eq(Entities[relationships[r].entity].tablename, cols[i].key,
                  Entities[target(r)].tablename, pks[i].key)],
       !.constraints[relationships[r].entity] =
           Append(@, ForeignKeyConstraint(
                        [i \in 1..Len(pks) |-> cols[i].key],
                        [i \in 1..Len(pks) |-> TargetPath(target(r), pks[i])],
                        FkName(Entities[relationships[r].entity].tablename,
                               [i \in 1..Len(pks) |-> cols[i].key]),
                        "None", "None"))]

\* CreateForeignKey with a fault: only the first primary-key column gets a column
CreateForeignKeyFirstOnly(st, r, pks) ==
    AddForeignKey(st, r, SubSeq(pks, 1, 1),
        [i \in 1..1 |->
            Column(FkColName(r, i, pks[i]), pks[i].type, relationships[r].column_kwargs)])

\* ManyToOne.create_keys on an owner that is not autoloaded, past its checks:
\* one column per primary-key column of the target (lines 563-605)
CreateForeignKey(st, r, pks) ==
    AddForeignKey(st, r, pks,
        [i \in 1..Len(pks) |->
            Column(FkColName(r, i, pks[i]), pks[i].type, relationships[r].column_kwargs)])

\* CreateChecked with a fault: a target without primary key is accepted
CreateCheckedAnyTarget(st, r, pks) ==
    IF relationships[r].colname # << >> /\ Len(relationships[r].colname) # Len(pks)
    THEN [st EXCEPT !.err = Error("PrimaryKeyMismatch", r)]
    ELSE CreateForeignKey(st, r, pks)

\* lines 543-605, pks being the primary keys of the target
CreateChecked(st, r, pks) ==
    IF relationships[r].colname # << >> /\ Len(relationships[r].colname) # Len(pks)
    THEN [st EXCEPT !.err = Error("PrimaryKeyMismatch", r)]
    ELSE IF pks = << >>
    THEN [st EXCEPT !.err = Error("NoPrimaryKey", r)]
    ELSE CreateForeignKey(st, r, pks)

\* lines 533-541, clauses being what _get_join_clauses returned as primary join
Reflected(st, r, clauses) ==
    IF clauses = << >>
    THEN [st EXCEPT !.err = Error("ReflectionMismatch", r)]
    ELSE [st EXCEPT !.primaryjoin_clauses[r] = clauses]

\* ManyToOne.create_keys once the target has its primary keys (lines 529-605)
ManyToOne_keys(st, r) ==
    IF st.err # NoErr THEN st
    ELSE IF Entities[relationships[r].entity].autoload
    THEN IF relationships[r].colname # << >>
         THEN Reflected(st, r,
                  _get_join_clauses(
                      [name |-> Entities[relationships[r].entity].tablename,
                       constraints |-> st.constraints[relationships[r].entity]],
                      relationships[r].colname, NoCols,
                      Entities[target(r)].tablename)[1])
         ELSE st
    ELSE CreateChecked(st, r, primary_keys(st.columns, target(r)))

RECURSIVE create_keys(_, _, _), desc_create_pk_cols(_, _), call_builders(_, _)

\* EntityDescriptor.create_pk_cols once its builders have run
PkColsDone(st, e) == IF st.err # NoErr THEN st ELSE [st EXCEPT !.pk_col_done[e] = "done"]

\* create_keys with a fault: columns already created are not looked for
create_keys_again(st, r, pk) ==
    CASE relationships[r].kind = "ManyToOne" ->
            IF Opt(relationships[r].column_kwargs, "primary_key", FALSE) # pk THEN st
            ELSE ManyToOne_keys(desc_create_pk_cols(st, target(r)), r)
      [] relationships[r].kind \in {"OneToOne", "OneToMany"} -> OneToOne_create_keys(st, r, pk)
      [] OTHER -> st

\* create_keys with a fault: the pass is not compared with the primary_key option
create_keys_any_pass(st, r, pk) ==
    CASE relationships[r].kind = "ManyToOne" ->
            IF st.foreign_key[r] # << >> THEN st
            ELSE ManyToOne_keys(desc_create_pk_cols(st, target(r)), r)
      [] relationships[r].kind \in {"OneToOne", "OneToMany"} -> OneToOne_create_keys(st, r, pk)
      [] OTHER -> st

\* Relationship.create_keys, dispatched on the kind (the base method does nothing);
\* for ManyToOne, lines 514-527 and then ManyToOne_keys
create_keys(st, r, pk) ==
    CASE relationships[r].kind = "ManyToOne" ->
            IF st.foreign_key[r] # << >> THEN st
            ELSE IF Opt(relationships[r].column_kwargs, "primary_key", FALSE) # pk THEN st
            ELSE ManyToOne_keys(desc_create_pk_cols(st, target(r)), r)
      [] relationships[r].kind \in {"OneToOne", "OneToMany"} -> OneToOne_create_keys(st, r, pk)
      [] OTHER -> st

\* the create_pk_cols builders of a list of relationships, in order, until one raises
call_builders(st, todo) ==
    IF todo = << >> \/ st.err # NoErr THEN st
    ELSE call_builders(create_keys(st, Head(todo), TRUE), Tail(todo))

\* EntityDescriptor.create_pk_cols: once per entity; entering it again before it
\* has completed is a fatal configuration error
desc_create_pk_cols(st, e) ==
    IF st.pk_col_done[e] = "done" THEN st
    ELSE IF st.pk_col_done[e] = "busy"
    THEN [st EXCEPT !.err = Error("CyclicPrimaryKey", NoneRel)]
    ELSE PkColsDone(call_builders([st EXCEPT !.pk_col_done[e] = "busy"],
                                  RelationshipsOf(e)), e)

-----------------------------------------------------------------------------
(* Bridge tables: ManyToMany.create_tables *)

\* the part of the state that table creation reads and writes
TableState ==
    [inv |-> _inverse, secondary_table |-> secondary_table, tables |-> tables,
     primaryjoin_clauses |-> primaryjoin_clauses,
     secondaryjoin_clauses |-> secondaryjoin_clauses, err |-> err]

\* "%s_%s" % (tablename, relationship name)
Part(e, name) == Entities[e].tablename \o <<"_">> \o name

\* source_part (line 722)
SourcePart(r) == Part(relationships[r].entity, relationships[r].name)

\* target_part (lines 727-730)
TargetPart(r, inv) ==
    IF inv # NoneRel THEN Part(target(r), relationships[inv].name)
    ELSE Entities[target(r)].tablename

\* the name of the bridge table of r, whose resolved inverse is inv (lines 732-740)
TableName(r, inv) ==
    IF relationships[r].user_tablename # NoName THEN relationships[r].user_tablename
    ELSE IF inv # NoneRel /\ StrLess(Entities[relationships[r].entity].tablename,
                                     Entities[target(r)].tablename)
         THEN TargetPart(r, inv) \o <<"_","_">> \o SourcePart(r)
         ELSE SourcePart(r) \o <<"_","_">> \o TargetPart(r, inv)

\* M2MColName with a fault: no positional suffix on a self-reference
M2MColNameNoSuffix(r, num, e, pk_col) ==
    Format(relationships[r].column_format,
           [tablename |-> Entities[e].tablename,
            key |-> pk_col.key,
            entity |-> Entities[e].lname])

\* the name of the bridge-table column for primary-key column pk_col of entity e,
\* on side num (0: owner, 1: target) of relationship r (lines 768-777)
M2MColName(r, num, e, pk_col) ==
    Format(relationships[r].column_format,
           [tablename |-> Entities[e].tablename,
            key |-> pk_col.key,
            entity |-> Entities[e].lname])
    \o (IF relationships[r].entity = target(r)
        THEN (IF num = 0 THEN <<"1">> ELSE <<"2">>)
        ELSE << >>)

\* one side of the bridge table of r over its columns cols: the constraint and
\* the join predicates; m2m is the relationship whose rules the constraint
\* carries, or None (lines 779-800)
M2MSideOver(r, e, fk_name, m2m, tablename, pks, cols) ==
    [columns |-> cols,
     constraint |-> ForeignKeyConstraint(
                        [i \in 1..Len(pks) |-> cols[i].key],
                        [i \in 1..Len(pks) |-> Entities[e].tablename \o <<".">> \o pks[i].key],
                        fk_name,
                        IF m2m # NoneRel THEN relationships[m2m].onupdate ELSE "None",
                        IF m2m # NoneRel THEN relationships[m2m].ondelete ELSE "None"),
     joins |-> IF relationships[r].entity = target(r)
               THEN [i \in 1..Len(pks) |->
                        Eq(tablename, cols[i].key, Entities[e].tablename, pks[i].key)]
               ELSE << >>]

\* one turn of the loop of lines 761-800
M2MSide(r, num, e, fk_name, m2m, tablename, pks) ==
    M2MSideOver(r, e, fk_name, m2m, tablename, pks,
        [i \in 1..Len(pks) |-> Column(M2MColName(r, num, e, pks[i]), pks[i].type, PkKw)])

\* lines 802-805: the Table over the two sides
TableOver(st, r, tablename, side0, side1) ==
    [st EXCEPT
       !.tables = Append(@, [name |-> tablename,
                             columns |-> side0.columns \o side1.columns,
                             constraints |-> << side0.constraint, side1.constraint >>,
                             creator |-> r, autoload |-> FALSE]),
       !.secondary_table[r] = Len(st.tables) + 1,
       !.primaryjoin_clauses[r] = @ \o side0.joins,
       !.secondaryjoin_clauses[r] = @ \o side1.joins]

\* the Table constructed by create_tables of r with resolved inverse inv (lines 745-805)
CreateTable(st, r, inv, tablename) ==
    TableOver(st, r, tablename,
        M2MSide(r, 0, relationships[r].entity, SourcePart(r) \o <<"_","f","k">>,
                r, tablename, primary_keys(columns, relationships[r].entity)),
        M2MSide(r, 1, target(r),
                IF inv # NoneRel
                THEN TargetPart(r, inv) \o <<"_","f","k">>
                ELSE SourcePart(r) \o <<"_","i","n","v","e","r","s","e","_","f","k">>,
                inv, tablename, primary_keys(columns, target(r))))

\* lines 833-836, joins being what _get_join_clauses returned
ReflectedJoins(st, r, joins) ==
    [st EXCEPT !.primaryjoin_clauses[r] = joins[1],
               !.secondaryjoin_clauses[r] = joins[2]]

\* ManyToMany._reflect_table
_reflect_table(st, r, tablename) ==
    IF ~Entities[target(r)].autoload
    THEN [st EXCEPT !.err = Error("AutoloadMismatch", r)]
    ELSE IF tablename \notin DOMAIN Database
    THEN [st EXCEPT !.err = Error("NoSuchTable", r)]
    ELSE IF relationships[r].entity # target(r)
    THEN [st EXCEPT !.tables = Append(@, Database[tablename] @@
                                         [name |-> tablename, creator |-> r, autoload |-> TRUE]),
                    !.secondary_table[r] = Len(st.tables) + 1]
    ELSE IF relationships[r].local_side = << >> /\ relationships[r].remote_side = << >>
    THEN [st EXCEPT !.tables = Append(@, Database[tablename] @@
                                         [name |-> tablename, creator |-> r, autoload |-> TRUE]),
                    !.secondary_table[r] = Len(st.tables) + 1,
                    !.err = Error("SelfReferentialAmbiguity", r)]
    ELSE ReflectedJoins(
            [st EXCEPT !.tables = Append(@, Database[tablename] @@
                                         [name |-> tablename, creator |-> r, autoload |-> TRUE]),
                       !.secondary_table[r] = Len(st.tables) + 1],
            r,
            _get_join_clauses([name |-> tablename,
                               constraints |-> Database[tablename].constraints],
                              relationships[r].local_side, relationships[r].remote_side,
                              Entities[relationships[r].entity].tablename))

\* the inverse has its bridge table: adopt it, the join lists swapped (lines 705-709)
AdoptTable(st, r, inv) ==
    [st EXCEPT !.secondary_table[r] = st.secondary_table[inv],
               !.primaryjoin_clauses[r] = st.secondaryjoin_clauses[inv],
               !.secondaryjoin_clauses[r] = st.primaryjoin_clauses[inv]]

\* ManyToMany.create_tables, i being what reading self.inverse gave (lines 704-805)
ManyToMany_tables(st, r, i) ==
    IF i.err # "none" THEN [st EXCEPT !.err = Error(i.err, r)]
    ELSE IF i.res # NoneRel /\ st.secondary_table[i.res] # NoTable
    THEN AdoptTable([st EXCEPT !.inv = i.inv], r, i.res)
    ELSE IF Entities[relationships[r].entity].autoload
    THEN _reflect_table([st EXCEPT !.inv = i.inv], r, TableName(r, i.res))
    ELSE CreateTable([st EXCEPT !.inv = i.inv], r, i.res, TableName(r, i.res))

\* ManyToMany.create_tables
ManyToMany_create_tables(st, r) ==
    IF st.secondary_table[r] # NoTable THEN st
    ELSE ManyToMany_tables(st, r, inverse(st.inv, r))

\* Relationship.create_tables, dispatched on the kind (the base method does nothing)
create_tables(st, r) ==
    IF relationships[r].kind = "ManyToMany" THEN ManyToMany_create_tables(st, r) ELSE st

-----------------------------------------------------------------------------
(* Properties: Relationship.create_properties and get_prop_kwargs *)

\* ManyToOne.get_prop_kwargs
ManyToOne_get_prop_kwargs(r) ==
    [uselist |-> FALSE] @@
    (IF Entities[relationships[r].entity].tablename = Entities[target(r)].tablename
     THEN [remote_side |-> primary_keys(columns, target(r))] ELSE << >>) @@
    (IF primaryjoin_clauses[r] # << >>
     THEN [primaryjoin |-> primaryjoin_clauses[r]] ELSE << >>)

\* OneToOne.get_prop_kwargs (OneToMany: uselist is True); inv is self.inverse
OneToOne_get_prop_kwargs(r, inv) ==
    [uselist |-> relationships[r].kind = "OneToMany"] @@
    (IF Entities[relationships[r].entity].tablename = Entities[target(r)].tablename
     THEN [remote_side |-> foreign_key[inv]] ELSE << >>) @@
    (IF primaryjoin_clauses[inv] # << >>
     THEN [primaryjoin |-> primaryjoin_clauses[inv]] ELSE << >>)

\* ManyToMany.get_prop_kwargs
ManyToMany_get_prop_kwargs(r) ==
    [secondary |-> secondary_table[r], uselist |-> TRUE] @@
    (IF target(r) = relationships[r].entity
     THEN [primaryjoin |-> primaryjoin_clauses[r],
           secondaryjoin |-> secondaryjoin_clauses[r]] ELSE << >>)

get_prop_kwargs(r, inv) ==
    CASE relationships[r].kind = "ManyToOne" -> ManyToOne_get_prop_kwargs(r)
      [] relationships[r].kind \in {"OneToOne", "OneToMany"} -> OneToOne_get_prop_kwargs(r, inv)
      [] relationships[r].kind = "ManyToMany" -> ManyToMany_get_prop_kwargs(r)

\* a dict without one key: kwargs.pop(k, None)
Without(kwargs, k) == [x \in (DOMAIN kwargs) \ {k} |-> kwargs[x]]

\* the part of the state that property creation reads and writes
PropState == [inv |-> _inverse, property |-> property, backref |-> backref, err |-> err]

\* backref(self.name, **kwargs), made by relationship r (lines 404-411)
Backref(r, kwargs) ==
    [set |-> TRUE, name |-> relationships[r].name, by |-> r,
     kwargs |-> Without(kwargs, "secondary")]

\* relation(self.target, **kwargs) (lines 414-415)
Relation(r, kwargs) == [set |-> TRUE, target |-> target(r), kwargs |-> kwargs]

\* Relationship.create_properties, i being what reading self.inverse gave and
\* kwargs what get_prop_kwargs returns (lines 397-416)
Properties(st, r, i, kwargs) ==
    IF i.err # "none" THEN [st EXCEPT !.err = Error(i.err, r)]
    ELSE IF i.res = NoneRel
    THEN [st EXCEPT !.inv = i.inv, !.property[r] = Relation(r, kwargs)]
    ELSE IF st.backref[i.res].set
    THEN [st EXCEPT !.inv = i.inv,
                    !.property[r] = Relation(r, [backref |-> st.backref[i.res]] @@ kwargs)]
    ELSE [st EXCEPT !.inv = i.inv, !.backref[r] = Backref(r, kwargs)]

\* get_prop_kwargs of r once self.inverse has been read
PropKwargs(r, i) == IF i.err # "none" THEN << >> ELSE get_prop_kwargs(r, i.res)

PropertiesWith(st, r, i) == Properties(st, r, i, PropKwargs(r, i))

\* Relationship.create_properties
create_properties(st, r) ==
    IF st.property[r].set \/ st.backref[r].set THEN st
    ELSE PropertiesWith(st, r, inverse(st.inv, r))

-----------------------------------------------------------------------------
(* The build: four phases in strict order; within a phase the phase method is *)
(* called on the relationships in any order, any number of times, and the     *)
(* phase ends once it has been called on every one. An exception ends the     *)
(* build.                                                                     *)

Running(p) == phase = p /\ err = NoErr

KeysUnchanged ==
    UNCHANGED <<relationships, phase, secondaryjoin_clauses, secondary_table, tables,
                property, backref, _target, join_args, join_ret>>

\* the effect of key creation st on the variables
KeysApplied(st) ==
    /\ _inverse' = st.inv
    /\ columns' = st.columns
    /\ constraints' = st.constraints
    /\ foreign_key' = st.foreign_key
    /\ primaryjoin_clauses' = st.primaryjoin_clauses
    /\ pk_col_done' = st.pk_col_done
    /\ err' = st.err
    /\ KeysUnchanged

\* Relationship.create_pk_cols
CreatePkCols(r) ==
    /\ Running("pk")
    /\ KeysApplied(create_keys(KeyState, r, TRUE))
    /\ called' = called \cup {r}

\* the primary-key pass of one entity: EntityDescriptor.create_pk_cols
EntityCreatePkCols(e) ==
    /\ Running("pk")
    /\ RelationshipsOf(e) # << >>
    /\ KeysApplied(desc_create_pk_cols(KeyState, e))
    /\ called' = called \cup { r \in Rels : relationships[r].entity = e }

\* Relationship.create_non_pk_cols
CreateNonPkCols(r) ==
    /\ Running("nonpk")
    /\ KeysApplied(create_keys(KeyState, r, FALSE))
    /\ called' = called \cup {r}

\* Relationship.create_tables
CreateTables(r) ==
    /\ Running("tables")
    /\ LET st == create_tables(TableState, r)
       IN  /\ _inverse' = st.inv
           /\ secondary_table' = st.secondary_table
           /\ tables' = st.tables
           /\ primaryjoin_clauses' = st.primaryjoin_clauses
           /\ secondaryjoin_clauses' = st.secondaryjoin_clauses
           /\ err' = st.err
    /\ called' = called \cup {r}
    /\ UNCHANGED <<relationships, phase, columns, constraints, foreign_key,
                   property, backref, pk_col_done, _target, join_args, join_ret>>

\* Relationship.create_properties
CreateProperties(r) ==
    /\ Running("props")
    /\ LET st == create_properties(PropState, r)
       IN  /\ _inverse' = st.inv
           /\ property' = st.property
           /\ backref' = st.backref
           /\ err' = st.err
    /\ called' = called \cup {r}
    /\ UNCHANGED <<relationships, phase, columns, constraints, foreign_key,
                   primaryjoin_clauses, secondaryjoin_clauses, secondary_table,
                   tables, pk_col_done, _target, join_args, join_ret>>

NextOf(p) ==
    CASE p = "pk" -> "nonpk"
      [] p = "nonpk" -> "tables"
      [] p = "tables" -> "props"
      [] p = "props" -> "done"

\* the driver moves on once the phase method has been called on every relationship
NextPhase ==
    /\ err = NoErr
    /\ phase # "done"
    /\ called = Rels
    /\ phase' = NextOf(phase)
    /\ called' = {}
    /\ UNCHANGED <<relationships, _inverse, columns, constraints, foreign_key,
                   primaryjoin_clauses, secondaryjoin_clauses, secondary_table,
                   tables, property, backref, pk_col_done, err, _target,
                   join_args, join_ret>>

Next ==
    \/ \E r \in Rels : CreatePkCols(r)
    \/ \E e \in EntityNames : EntityCreatePkCols(e)
    \/ \E r \in Rels : CreateNonPkCols(r)
    \/ \E r \in Rels : CreateTables(r)
    \/ \E r \in Rels : CreateProperties(r)
    \/ NextPhase

Spec == Init /\ [][Next]_vars

SpecM2M == InitM2M /\ [][Next]_vars

SpecCorner == InitCorner /\ [][Next]_vars

-----------------------------------------------------------------------------
(* _get_join_clauses on its own: the arguments are drawn from bounded sets    *)
(* and the call is one step                                                   *)

\* largest number of foreign key constraints of a local table
MaxCons == 3

\* largest number of names in a column list
MaxCols == 2

\* the lists of at most n different elements of S
Lists(S, n) ==
    UNION { { l \in [1..k -> S] : \A i, j \in 1..k : (i # j) => (l[i] # l[j]) } :
            k \in 0..n }

FK(cols, refcols) == ForeignKeyConstraint(cols, refcols, <<"f","k">>, "None", "None")

\* foreign key constraints of a local table: to the table t, to the table u, to both
ConstraintPool ==
    << FK(<< <<"a">> >>, << <<"t",".","i">> >>),
       FK(<< <<"c">> >>, << <<"t",".","k">> >>),
       FK(<< <<"b">>, <<"a">> >>, << <<"t",".","i">>, <<"t",".","k">> >>),
       FK(<< <<"a">> >>, << <<"t",".","k">> >>),
       FK(<< <<"c">> >>, << <<"u",".","i">> >>),
       FK(<< <<"b">>, <<"c">> >>, << <<"t",".","i">>, <<"u",".","i">> >>) >>

LocalTables ==
    { [name |-> <<"l">>, constraints |-> [i \in 1..Len(l) |-> ConstraintPool[l[i]]]] :
        l \in Lists(1..Len(ConstraintPool), MaxCons) }

ColumnLists == Lists({ <<"a">>, <<"b">>, <<"c">> }, MaxCols)

JoinArgs ==
    [local_table : LocalTables, local_cols1 : ColumnLists,
     local_cols2 : ColumnLists \cup {NoCols}, target_table : { <<"t">> }]

InitJoin ==
    /\ relationships = << >>
    /\ Unbuilt
    /\ join_args \in JoinArgs
    /\ join_ret = NoRet

\* one call of _get_join_clauses: it sorts copies of its lists (lines 862-867) and
\* returns the two joins (line 910)
GetJoinClauses ==
    /\ join_args # NoArgs
    /\ join_ret = NoRet
    /\ join_ret' = [returned |-> TRUE,
                    value |-> _get_join_clauses(join_args.local_table, join_args.local_cols1,
                                                join_args.local_cols2, join_args.target_table)]
    /\ join_args' = join_args
    /\ UNCHANGED <<relationships, phase, called, _inverse, columns, constraints,
                   foreign_key, primaryjoin_clauses, secondaryjoin_clauses,
                   secondary_table, tables, property, backref, pk_col_done, err, _target>>

NextJoin == GetJoinClauses

SpecJoin == InitJoin /\ [][NextJoin]_vars

-----------------------------------------------------------------------------
(* Properties of inverse resolution *)

IsKind(r, kinds) == relationships[r].kind \in kinds

\* C1: the resolved inverse is symmetric: whenever the resolved inverse of a
\* relationship A is B, the resolved inverse of B is A, so that no third
\* relationship is ever the resolved inverse of B
InverseSymmetric ==
    \A a \in Rels : _inverse[a] # NoneRel => _inverse[_inverse[a]] = a

\* C2: once the resolved inverse of a relationship is set, no step of the build,
\* whichever relationship it resolves an inverse for, changes it
InverseCached ==
    [][\A r \in Rels : _inverse[r] # NoneRel => _inverse'[r] = _inverse[r]]_vars

-----------------------------------------------------------------------------
(* Properties of bridge tables *)

\* the bridge table of r
TableOf(r) == tables[secondary_table[r]]

\* a and b are a matched pair: each is the resolved inverse of the other
Paired(a, b) == _inverse[a] = b /\ _inverse[b] = a

\* C3: for a matched ManyToMany pair without explicit table name, the name of
\* the bridge table one side created is the name the other side computes when
\* it runs create_tables first, self-referential pairs included
TableNameOrderIndependent ==
    \A a, b \in Rels :
        ( /\ IsKind(a, {"ManyToMany"})
          /\ Paired(a, b)
          /\ relationships[a].user_tablename = NoName
          /\ relationships[b].user_tablename = NoName
          /\ secondary_table[a] # NoTable
          /\ TableOf(a).creator = a
          /\ ~TableOf(a).autoload )
        => TableOf(a).name = TableName(b, a)

\* C4: when create_tables has run on both relationships of a ManyToMany pair
\* (the resolved inverse of a is b), both reference the same table, the two have
\* not made a table each, and each side's primary join list is the other's
\* secondary one
BridgeTableShared ==
    \A a \in Rels :
        ( /\ IsKind(a, {"ManyToMany"})
          /\ _inverse[a] # NoneRel
          /\ secondary_table[a] # NoTable
          /\ secondary_table[_inverse[a]] # NoTable )
        => /\ secondary_table[a] = secondary_table[_inverse[a]]
           /\ Cardinality({ t \in 1..Len(tables) :
                              tables[t].creator \in {a, _inverse[a]} }) <= 1
           /\ primaryjoin_clauses[a] = secondaryjoin_clauses[_inverse[a]]
           /\ secondaryjoin_clauses[a] = primaryjoin_clauses[_inverse[a]]

-----------------------------------------------------------------------------
(* Properties of key creation *)

OneToX == {"OneToOne", "OneToMany"}

KeyPasses == {"pk", "nonpk"}

\* the resolved inverse of r is a ManyToOne
HasManyToOneInverse(r) == _inverse[r] # NoneRel /\ IsKind(_inverse[r], {"ManyToOne"})

\* the target of r declares no ManyToOne back to the owner of r that r could
\* have as inverse, and r names none
NothingToResolve(r) ==
    /\ relationships[r].inverse_name = NoName
    /\ _inverse[r] = NoneRel
    /\ ~\E o \in Rels :
          /\ IsKind(o, {"ManyToOne"})
          /\ relationships[o].entity = target(r)
          /\ target(o) = relationships[r].entity
          /\ relationships[o].inverse_name \in {NoName, relationships[r].name}

\* what a create_keys step on the OneToOne or OneToMany r does
OneToXKeysStep(r) ==
    /\ columns' = columns
    /\ constraints' = constraints
    /\ foreign_key' = foreign_key
    /\ NothingToResolve(r) => err' = Error("MissingInverse", r)
    /\ (err' = NoErr) <=> (_inverse'[r] # NoneRel /\ IsKind(_inverse'[r], {"ManyToOne"}))

AmbiguousPattern(a, b, c) ==
    /\ a # b
    /\ IsKind(a, {"ManyToOne"}) /\ IsKind(b, {"ManyToOne"}) /\ IsKind(c, {"OneToMany"})
    /\ relationships[a].entity = relationships[b].entity
    /\ target(a) = target(b)
    /\ relationships[c].entity = target(a)
    /\ target(c) = relationships[a].entity
    /\ relationships[a].inverse_name = NoName
    /\ relationships[b].inverse_name = NoName
    /\ relationships[c].inverse_name = NoName

\* C6: with two ManyToOne to the same target and a OneToMany back, none naming
\* its inverse, the build never gets past the first key pass, the key pass of
\* the OneToMany always fails, and it fails with AmbiguousInverse
AmbiguousInverseFails ==
    \A a, b, c \in Rels :
        AmbiguousPattern(a, b, c) =>
            /\ phase = "pk"
            /\ c \in called => err # NoErr
            /\ err.rel = c => err.kind = "AmbiguousInverse"

\* the key pass of the OneToMany of such a configuration has failed
AmbiguousInverseRaised ==
    \E a, b, c \in Rels :
        AmbiguousPattern(a, b, c) /\ err = Error("AmbiguousInverse", c)

\* the key passes have completed without error
KeysDone == phase \notin KeyPasses

\* r has one foreign-key column per primary-key column of its target, and its
\* i-th join predicate pairs the i-th of the ones with the i-th of the others
ForeignKeyMatches(r, pks) ==
    /\ Len(foreign_key[r]) = Len(pks)
    /\ Len(primaryjoin_clauses[r]) = Len(pks)
    /\ \A i \in 1..Len(pks) :
          /\ i <= Len(foreign_key[r])
          /\ i <= Len(primaryjoin_clauses[r])
          /\ primaryjoin_clauses[r][i] =
                Eq(Entities[relationships[r].entity].tablename, foreign_key[r][i].key,
                   Entities[target(r)].tablename, pks[i].key)
          /\ relationships[r].colname # << >> =>
                foreign_key[r][i].key = relationships[r].colname[i]
          /\ \E n \in 1..Len(columns[relationships[r].entity]) :
                columns[relationships[r].entity][n] = foreign_key[r][i]

-----------------------------------------------------------------------------
(* Properties of property creation *)

\* create_properties has run on r
PropertiesCreated(r) == property[r].set \/ backref[r].set

\* a has constructed the property, b has only the deferred backref, and the
\* property of a was given the backref of b
PropertyWithBackrefOf(a, b) ==
    /\ property[a].set /\ ~backref[a].set
    /\ backref[b].set /\ ~property[b].set
    /\ "backref" \in DOMAIN property[a].kwargs
    /\ property[a].kwargs.backref = backref[b]

\* C8: no relationship has both a constructed property and a deferred backref;
\* of a pair (the resolved inverse of a is b) on both sides of which
\* create_properties has run, one side has the property, the other only the
\* backref, which is the one the property was given; a relationship without
\* inverse on which it has run has its own property and no backref
PropertyBackrefExclusive ==
    /\ \A r \in Rels : ~(property[r].set /\ backref[r].set)
    /\ \A a \in Rels :
          (_inverse[a] # NoneRel /\ PropertiesCreated(a) /\ PropertiesCreated(_inverse[a]))
          => (PropertyWithBackrefOf(a, _inverse[a]) \/ PropertyWithBackrefOf(_inverse[a], a))
    /\ \A r \in Rels :
          (_inverse[r] = NoneRel /\ err = NoErr
             /\ (phase = "done" \/ (phase = "props" /\ r \in called)))
          => (property[r].set /\ ~backref[r].set)

-----------------------------------------------------------------------------
(* Properties of the columns created *)

\* r is a ManyToOne whose columns create_keys has named and created
DefaultNamed(r) ==
    /\ IsKind(r, {"ManyToOne"})
    /\ relationships[r].colname = << >>
    /\ ~Entities[relationships[r].entity].autoload
    /\ foreign_key[r] # << >>

\* required=True was given
Required(r) ==
    /\ "nullable" \in DOMAIN relationships[r].column_kwargs
    /\ ~relationships[r].column_kwargs.nullable

\* primary_key=True was given
PrimaryKey(r) ==
    /\ "primary_key" \in DOMAIN relationships[r].column_kwargs
    /\ relationships[r].column_kwargs.primary_key

\* nullable unless required or primary_key is given
NullableUnlessGiven(r, col) == col.nullable = ~(Required(r) \/ PrimaryKey(r))

\* nullable as 'required' says when it is given, else unless primary_key is given
NullableAsRequired(r, col) ==
    col.nullable = IF "nullable" \in DOMAIN relationships[r].column_kwargs
                   THEN ~Required(r)
                   ELSE ~PrimaryKey(r)

\* the owner of r has, for the i-th primary-key column of the target, one column
\* '<relationship name>_<key>' of the same type, which a foreign key of the
\* owner's table points to that column of the target's table with
ColumnFor(r, pks, i) ==
    /\ i <= Len(foreign_key[r])
    /\ foreign_key[r][i].key = relationships[r].name \o <<"_">> \o pks[i].key
    /\ foreign_key[r][i].type = pks[i].type
    /\ Cardinality({ n \in 1..Len(columns[relationships[r].entity]) :
                       columns[relationships[r].entity][n].key = foreign_key[r][i].key }) = 1
    /\ \E n \in 1..Len(columns[relationships[r].entity]) :
          columns[relationships[r].entity][n] = foreign_key[r][i]
    /\ \E c \in 1..Len(constraints[relationships[r].entity]) :
          /\ i <= Len(constraints[relationships[r].entity][c].columns)
          /\ constraints[relationships[r].entity][c].columns[i] = foreign_key[r][i].key
          /\ constraints[relationships[r].entity][c].refcolumns[i] =
                Entities[target(r)].tablename \o <<".">> \o pks[i].key

DefaultColumns(r, pks) ==
    /\ Len(foreign_key[r]) = Len(pks)
    /\ \A i \in 1..Len(pks) : ColumnFor(r, pks, i)

\* C9, as stated: a ManyToOne without colname on an owner that is not
\* autoloaded gets one column '<name>_<k>' per primary-key column k of the
\* target, same type, under a foreign key to column k of the target's table,
\* nullable unless required or primary_key is given
DefaultColumnNaming ==
    \A r \in Rels : DefaultNamed(r) =>
        /\ DefaultColumns(r, primary_keys(columns, target(r)))
        /\ \A i \in 1..Len(foreign_key[r]) : NullableUnlessGiven(r, foreign_key[r][i])

\* C9, amended: the same, the column being nullable as 'required' says when
\* required is given, and unless primary_key is given when it is not
DefaultColumnNamingRequired ==
    \A r \in Rels : DefaultNamed(r) =>
        /\ DefaultColumns(r, primary_keys(columns, target(r)))
        /\ \A i \in 1..Len(foreign_key[r]) : NullableAsRequired(r, foreign_key[r][i])

\* a ManyToOne given neither option and one given primary_key=True with
\* required=False both have their columns
DefaultColumnsCreated ==
    /\ \E r \in Rels :
          /\ DefaultNamed(r)
          /\ "nullable" \notin DOMAIN relationships[r].column_kwargs
          /\ ~PrimaryKey(r)
    /\ \E r \in Rels :
          /\ DefaultNamed(r)
          /\ "nullable" \in DOMAIN relationships[r].column_kwargs
          /\ ~Required(r)
          /\ PrimaryKey(r)

-----------------------------------------------------------------------------
(* Properties of the bridge table created *)

\* t is a bridge table that create_tables constructed
Constructed(t) == ~tables[t].autoload

\* the constraint con covers the columns cols and points, column by column, to
\* the primary-key columns pks of the table of entity e
Covers(con, cols, e, pks) ==
    /\ Len(cols) = Len(pks)
    /\ con.columns = [i \in 1..Len(cols) |-> cols[i].key]
    /\ con.refcolumns = [i \in 1..Len(pks) |-> Entities[e].tablename \o <<".">> \o pks[i].key]
    /\ \A i \in 1..Len(pks) : i <= Len(cols) => cols[i].type = pks[i].type

\* the table tab has one column per primary-key column of owner and target, the
\* owner's first, and one constraint for each of the two sides
BridgeShape(tab, owner, pks1, target_, pks2) ==
    /\ Len(tab.columns) = Len(pks1) + Len(pks2)
    /\ Len(tab.constraints) = 2
    /\ Covers(tab.constraints[1], SubSeq(tab.columns, 1, Len(pks1)), owner, pks1)
    /\ Covers(tab.constraints[2],
              SubSeq(tab.columns, Len(pks1) + 1, Len(tab.columns)), target_, pks2)

\* the columns of tab have pairwise distinct names
DistinctNames(tab) ==
    \A i, j \in 1..Len(tab.columns) : i # j => tab.columns[i].key # tab.columns[j].key

\* the column_format of r names the table or the entity a column stands for
NamesTheSide(r) ==
    \E n \in 1..Len(relationships[r].column_format) :
        relationships[r].column_format[n] \in {"tablename", "entity"}

-----------------------------------------------------------------------------
(* Relationship.target on its own: of_kind is the entity itself, written as   *)
(* the one-element list of its name, or a string, written as the list of its  *)
(* characters                                                                 *)

\* EntityMeta._entities[self.entity._caller]: the entities of the declaring scope
caller_entities ==
    { [name |-> <<"P","e","t">>, entity |-> "Pet"],
      [name |-> <<"P","e","r","s","o","n">>, entity |-> "Person"] }

\* sys.modules: the modules loaded, with the entities among their attributes
sys_modules ==
    { [name |-> <<"m">>, attrs |-> { [name |-> <<"P","e","t">>, entity |-> "Pet"] }],
      [name |-> <<"p",".","m">>,
       attrs |-> { [name |-> <<"P","e","r","s","o","n">>, entity |-> "Person"] }] }

\* dict[key], NoTarget standing for the KeyError of a missing key
Lookup(dict, key) ==
    IF \E item \in dict : item.name = key
    THEN (CHOOSE item \in dict : item.name = key)
    ELSE [name |-> key, entity |-> NoTarget]

\* getattr(module, classname, None)
GetAttr(attrs, classname) == Lookup(attrs, classname).entity

\* lines 428-429: the module is looked up, then the attribute, None when it has none
Qualified(path, classname, r) ==
    IF \E m \in sys_modules : m.name = path
    THEN [target |-> GetAttr((CHOOSE m \in sys_modules : m.name = path).attrs, classname),
          err |-> NoErr]
    ELSE [target |-> NoTarget, err |-> Error("TargetNotFound", r)]

\* lines 435-436
Unqualified(classname, r) ==
    IF Lookup(caller_entities, classname).entity # NoTarget
    THEN [target |-> Lookup(caller_entities, classname).entity, err |-> NoErr]
    ELSE [target |-> NoTarget, err |-> Error("TargetNotFound", r)]

\* lines 423-436: rsplit(of_kind, '.', 1)
ByName(of_kind, dot, r) ==
    IF dot > 0
    THEN Qualified(SubSeq(of_kind, 1, dot - 1), SubSeq(of_kind, dot + 1, Len(of_kind)), r)
    ELSE Unqualified(of_kind, r)

\* Relationship.target: the value of self._target after the read, which is what the
\* read returns, and the exception raised
Relationship_target(cached, of_kind, r) ==
    IF cached # NoTarget THEN [target |-> cached, err |-> NoErr]
    ELSE IF Len(of_kind) = 1 /\ of_kind[1] \in EntityNames
    THEN [target |-> of_kind[1], err |-> NoErr]
    ELSE ByName(of_kind, LastDot(of_kind), r)

\* declarations whose target is given in each of the ways of_kind allows
TargetDecls == <<
    ManyToOne("Pet", <<"o","w","n","e","r">>, <<"Person">>, << >>),
    ManyToOne("Pet", <<"v","e","t">>, <<"P","e","r","s","o","n">>, << >>),
    ManyToOne("Pet", <<"c","a","t">>, <<"C","a","t">>, << >>),
    OneToMany("Person", <<"p","e","t","s">>, <<"m",".","P","e","t">>, << >>),
    OneToMany("Person", <<"c","a","t","s">>, <<"m",".","C","a","t">>, << >>),
    ManyToMany("Person", <<"t","o","y","s">>, <<"n",".","P","e","t">>, << >>),
    ManyToMany("Pet", <<"p","a","l","s">>, <<"p",".","m",".","P","e","r","s","o","n">>, << >>),
    OneToOne("Pet", <<"m","a","t","e">>, <<"p",".","m",".","P","e","t">>, << >>) >>

InitTarget == InitOver(TargetDecls)

\* one read of the property target of a relationship
ResolveTarget(r) ==
    /\ err = NoErr
    /\ LET read == Relationship_target(_target[r], relationships[r].of_kind, r)
       IN  /\ _target' = [_target EXCEPT ![r] = read.target]
           /\ err' = read.err
    /\ called' = called \cup {r}
    /\ UNCHANGED <<relationships, phase, _inverse, columns, constraints, foreign_key,
                   primaryjoin_clauses, secondaryjoin_clauses, secondary_table, tables,
                   property, backref, pk_col_done, join_args, join_ret>>

NextTarget == \E r \in Rels : ResolveTarget(r)

SpecTarget == InitTarget /\ [][NextTarget]_vars

\* a relationship whose target has been read without an exception
TargetRead(r) == r \in called /\ err # Error("TargetNotFound", r)

\* C12: a read of the target of a relationship either fails with TargetNotFound or
\* returns an entity, never none; and the entity is cached in _target
TargetNeverNone ==
    \A r \in Rels : TargetRead(r) => _target[r] # NoTarget

-----------------------------------------------------------------------------
(* Names of the foreign-key columns *)

\* how many columns of entity e are named key
Occurrences(e, key) ==
    Cardinality({ n \in 1..Len(columns[e]) : columns[e][n].key = key })

\* every foreign-key column r created is the only column of that name on its owner
NamedOnce(r) ==
    \A i \in 1..Len(foreign_key[r]) :
        Occurrences(relationships[r].entity, foreign_key[r][i].key) = 1

\* C13, as stated: the foreign-key columns a ManyToOne without colname creates
\* never collide: each differs from the others of the relationship, from those of
\* every other ManyToOne of the owner and from every column the owner has
ForeignKeyNamesDistinct ==
    \A r \in Rels : DefaultNamed(r) => NamedOnce(r)

Prefix(p, name) == Len(p) <= Len(name) /\ SubSeq(name, 1, Len(p)) = p

NamePrefix(r) == relationships[r].name \o <<"_">>

\* the names given on the owner of r otherwise: its fields, and the names and
\* explicit column names of its other ManyToOne relationships
OtherNames(r) ==
    { Entities[relationships[r].entity].fields[n].key :
        n \in 1..Len(Entities[relationships[r].entity].fields) }
    \cup { relationships[o].name :
             o \in { o \in Rels \ {r} : /\ relationships[o].entity = relationships[r].entity
                                         /\ IsKind(o, {"ManyToOne"}) } }
    \cup UNION { { relationships[o].colname[n] : n \in 1..Len(relationships[o].colname) } :
                   o \in { o \in Rels \ {r} : relationships[o].entity = relationships[r].entity } }

\* no other name on the owner starts with '<name of r>_', and the name of r does
\* not start with '<name>_' of another ManyToOne of the owner
NamesApart(r) ==
    /\ \A name \in OtherNames(r) : ~Prefix(NamePrefix(r), name)
    /\ \A o \in Rels \ {r} :
          (relationships[o].entity = relationships[r].entity /\ IsKind(o, {"ManyToOne"}))
             => ~Prefix(NamePrefix(o), relationships[r].name)

\* C13, amended: the foreign-key columns a ManyToOne without colname creates are
\* the only columns of their names on the owner, provided no other name given on
\* the owner starts with '<relationship name>_' and the relationship's name does
\* not start with '<name>_' of another ManyToOne of the owner
ForeignKeyNamesDistinctApart ==
    \A r \in Rels : (DefaultNamed(r) /\ NamesApart(r)) => NamedOnce(r)

\* a self-referential ManyToOne to a composite primary key has created its columns
\* next to those of another ManyToOne of the same owner
SelfReferentialColumnsCreated ==
    \E r, o \in Rels :
        /\ r # o
        /\ DefaultNamed(r) /\ NamesApart(r)
        /\ DefaultNamed(o)
        /\ relationships[o].entity = relationships[r].entity
        /\ target(r) = relationships[r].entity
        /\ Len(foreign_key[r]) > 1

-----------------------------------------------------------------------------
(* Primary keys that depend on each other *)

\* entity a has a primary-key ManyToOne to entity b
PkEdge(a, b) ==
    \E r \in Rels : /\ IsKind(r, {"ManyToOne"})
                    /\ PrimaryKey(r)
                    /\ relationships[r].entity = a
                    /\ target(r) = b

PkStep(S) == S \cup { b \in EntityNames : \E a \in S : PkEdge(a, b) }

\* the entities the primary key of e depends on, over any number of ManyToOne
PkDependsOn(e) == PkStep(PkStep(PkStep({ b \in EntityNames : PkEdge(e, b) })))

\* some entity's primary key depends on itself, directly or through others
PkCycle == \E e \in EntityNames : e \in PkDependsOn(e)

\* C14: every key-creation pass comes to an end: no pass is left open unless the
\* build has failed; when the primary key of an entity depends on itself, by a
\* self-referential or by mutual primary-key ManyToOne, the build fails in the
\* primary-key pass and never gets past it; and the error of re-entering a
\* primary-key pass is raised only then, so never for a self-referential
\* ManyToOne that is not a primary key
PrimaryKeyCycleDetected ==
    /\ err = NoErr => \A e \in EntityNames : pk_col_done[e] # "busy"
    /\ PkCycle => phase = "pk"
    /\ (PkCycle /\ called = Rels) => err # NoErr
    /\ err.kind = "CyclicPrimaryKey" => PkCycle

\* the build has failed on two entities whose primary keys are ManyToOne to each
\* other, in a configuration with a self-referential ManyToOne that is no
\* primary key
MutualPrimaryKeyRaised ==
    /\ err.kind = "CyclicPrimaryKey"
    /\ \A e \in EntityNames : ~PkEdge(e, e)
    /\ \E r \in Rels : /\ IsKind(r, {"ManyToOne"})
                        /\ ~PrimaryKey(r)
                        /\ target(r) = relationships[r].entity

-----------------------------------------------------------------------------
(* An inverse given by name *)

\* the kinds a relationship of a kind pairs with
Counterparts(kind) ==
    CASE kind = "ManyToOne" -> {"OneToMany", "OneToOne"}
      [] kind \in {"OneToOne", "OneToMany"} -> {"ManyToOne"}
      [] kind = "ManyToMany" -> {"ManyToMany"}

\* the relationships of the target of r that carry the name r gives as its inverse
Named(r) ==
    { o \in Rels : /\ relationships[o].entity = target(r)
                   /\ relationships[o].name = relationships[r].inverse_name }

\* the step is a call on r that reads r.inverse
ReadsInverse(r) ==
    \/ IsKind(r, OneToX) /\ (CreatePkCols(r) \/ CreateNonPkCols(r))
    \/ IsKind(r, {"ManyToMany"}) /\ secondary_table[r] = NoTable /\ CreateTables(r)
    \/ ~property[r].set /\ ~backref[r].set /\ CreateProperties(r)

\* what a failure of r by its inverse name says about the state
FailedByName(r) ==
    /\ err = Error("InverseNotFound", r) =>
          /\ relationships[r].inverse_name # NoName
          /\ Named(r) = {}
          /\ _inverse[r] = NoneRel
    /\ err = Error("TypeMismatch", r) =>
          /\ relationships[r].inverse_name # NoName
          /\ \E o \in Named(r) :
                /\ relationships[o].kind \notin Counterparts(relationships[r].kind)
                /\ _inverse[o] # r
          /\ _inverse[r] = NoneRel

\* reading the inverse of r, not yet resolved and given by name
ReadByNameStep(r) ==
    /\ Named(r) = {} => err' = Error("InverseNotFound", r)
    /\ (\E o \in Named(r) : relationships[o].kind \notin Counterparts(relationships[r].kind))
          => err' = Error("TypeMismatch", r)
    /\ err' # NoErr => _inverse' = _inverse

\* C15: reading the inverse of a relationship that names its inverse fails with
\* InverseNotFound when the target has no relationship of that name and with
\* TypeMismatch when the relationship of that name is not of a counterpart kind;
\* in both cases no resolved inverse is set or changed
ExplicitInverseChecked ==
    /\ [](\A r \in Rels : FailedByName(r))
    /\ [][\A r \in Rels :
            (/\ relationships[r].inverse_name # NoName
             /\ _inverse[r] = NoneRel
             /\ ReadsInverse(r)) => ReadByNameStep(r)]_vars

\* Person.heir = OneToOne('Person', inverse='children') has failed on
\* Person.children = OneToMany('Person')
TypeMismatchRaised ==
    \E r \in Rels :
        /\ err = Error("TypeMismatch", r)
        /\ IsKind(r, {"OneToOne"})
        /\ \E o \in Named(r) : IsKind(o, {"OneToMany"})

-----------------------------------------------------------------------------
(* Key creation that fails *)

\* a ManyToOne whose owner is not autoloaded
Creating(r) == IsKind(r, {"ManyToOne"}) /\ ~Entities[relationships[r].entity].autoload

KeyErrors == {"PrimaryKeyMismatch", "NoPrimaryKey"}

\* the columns of e are its fields and the foreign-key columns of its relationships,
\* its constraints the reflected ones and one per relationship with such columns
Accounted(e) ==
    /\ Len(columns[e]) =
          Len(Entities[e].fields)
          + Len(Concat([n \in 1..Len(RelationshipsOf(e)) |->
                           foreign_key[RelationshipsOf(e)[n]]]))
    /\ Len(constraints[e]) =
          Len(Entities[e].reflected)
          + Cardinality({ r \in Rels : /\ relationships[r].entity = e
                                       /\ foreign_key[r] # << >> })

\* a relationship that failed has added nothing
NothingAdded(r) ==
    /\ foreign_key[r] = << >>
    /\ primaryjoin_clauses[r] = << >>
    /\ Accounted(relationships[r].entity)

\* C16, as stated: create_keys of a ManyToOne on an owner that is not autoloaded
\* fails with PrimaryKeyMismatch when the length of colname differs from the
\* number of primary-key columns of the target and with NoPrimaryKey when the
\* target has none, and has then added nothing
KeyErrorsRaised ==
    \A r \in Rels : (Creating(r) /\ err.rel = r /\ err.kind \in KeyErrors) =>
        /\ err.kind = "PrimaryKeyMismatch" =>
              /\ relationships[r].colname # << >>
              /\ Len(relationships[r].colname) # Len(primary_keys(columns, target(r)))
        /\ primary_keys(columns, target(r)) = << >> => err.kind = "NoPrimaryKey"
        /\ NothingAdded(r)

\* what holds of a ManyToOne r whose target has the primary keys pks
KeysChecked(r, pks) ==
    /\ err = Error("PrimaryKeyMismatch", r) =>
          /\ relationships[r].colname # << >>
          /\ Len(relationships[r].colname) # Len(pks)
    /\ err = Error("NoPrimaryKey", r) =>
          /\ relationships[r].colname = << >>
          /\ pks = << >>
    /\ (err.rel = r /\ err.kind \in KeyErrors) => NothingAdded(r)
    /\ (foreign_key[r] # << >> \/ KeysDone) =>
          /\ pks # << >>
          /\ Len(foreign_key[r]) = Len(pks)
          /\ relationships[r].colname # << >> => Len(relationships[r].colname) = Len(pks)

\* C16, amended: PrimaryKeyMismatch when colname is given and its length differs
\* from the number of primary-key columns of the target, also when the target has
\* none; NoPrimaryKey when the target has none and no colname is given; the
\* relationship has then added nothing, and it gets its columns only when neither
\* is the case
KeyErrorsRaisedInOrder ==
    \A r \in Rels : Creating(r) => KeysChecked(r, primary_keys(columns, target(r)))

\* Person.fav = ManyToOne('Pet', colname=['c1']) has failed on the composite
\* primary key of Pet
PrimaryKeyMismatchRaised ==
    \E r \in Rels :
        /\ Creating(r)
        /\ err = Error("PrimaryKeyMismatch", r)
        /\ Len(primary_keys(columns, target(r))) > Len(relationships[r].colname)

-----------------------------------------------------------------------------
(* Key creation over the two passes *)

\* the constraints of the owner of r over exactly the foreign-key columns of r
ConstraintsOf(r) ==
    { c \in 1..Len(constraints[relationships[r].entity]) :
        constraints[relationships[r].entity][c].columns =
            [i \in 1..Len(foreign_key[r]) |-> foreign_key[r][i].key] }

\* where the build stands with the columns of ManyToOne r
CreatedInItsPass(r) ==
    /\ foreign_key[r] # << >> => Cardinality(ConstraintsOf(r)) = 1
    /\ (phase = "pk" /\ foreign_key[r] # << >>) => PrimaryKey(r)
    /\ (phase # "pk" /\ PrimaryKey(r)) => foreign_key[r] # << >>
    /\ KeysDone => foreign_key[r] # << >>

\* create_keys called on r in a pass that is not its own, or once again
KeysCallElsewhere(r) ==
    /\ CreatePkCols(r) \/ CreateNonPkCols(r)
    /\ foreign_key[r] # << >> \/ (PrimaryKey(r) <=> phase # "pk")

\* C17: over the primary-key pass and the other pass, however often create_keys is
\* called, a ManyToOne on an owner that is not autoloaded gets its foreign-key
\* columns and its one constraint once, in the pass of its primary_key option;
\* they are never changed afterwards, the columns and constraints of every entity
\* are exactly those created once, and any other call of create_keys on it
\* changes nothing on any entity
KeysCreatedOnce ==
    /\ [](/\ \A r \in Rels : Creating(r) => CreatedInItsPass(r)
          /\ \A e \in EntityNames : Accounted(e))
    /\ [][\A r \in Rels : foreign_key[r] # << >> => foreign_key'[r] = foreign_key[r]]_vars
    /\ [][\A r \in Rels : (Creating(r) /\ KeysCallElsewhere(r)) =>
             UNCHANGED <<columns, constraints, foreign_key, primaryjoin_clauses,
                         pk_col_done, _inverse, err>>]_vars

\* the second pass has created the columns of a ManyToOne, next to those the
\* first pass created for a primary-key ManyToOne of the same owner
BothPassesCreated ==
    /\ phase = "nonpk"
    /\ \E r, o \in Rels :
          /\ Creating(r) /\ PrimaryKey(r) /\ foreign_key[r] # << >>
          /\ Creating(o) /\ ~PrimaryKey(o) /\ foreign_key[o] # << >>
          /\ relationships[o].entity = relationships[r].entity
          /\ o \in called

-----------------------------------------------------------------------------
(* The join-clause deriver and ambiguity *)

\* the keys of constraint_map in the call made
CallKeys ==
    KeysOf(ConstraintMap(UsedConstraints(join_args.local_table.constraints,
                                         join_args.target_table)))

Cols1 == SortNames(join_args.local_cols1)

Cols2 ==
    IF join_args.local_cols2 # NoCols THEN SortNames(join_args.local_cols2) ELSE NoCols

\* a slot is wanted, no column list is given for it, and more than one constraint
\* to the target is left over for it
AmbiguousSlot ==
    \/ /\ join_args.local_cols1 = << >>
       /\ Cardinality({ k \in CallKeys : k # Cols2 }) > 1
    \/ /\ join_args.local_cols2 = << >>
       /\ Cardinality({ k \in CallKeys : k # Cols1 }) > 1

\* C11: a call of _get_join_clauses in which more than one constraint to the target
\* could fill a slot that no explicit column list selects does not return joins: it
\* fails with AmbiguousJoin
AmbiguousJoinFails ==
    (join_args # NoArgs /\ AmbiguousSlot) => ~join_ret.returned

-----------------------------------------------------------------------------
(* The join-clause deriver with one explicit column list *)

ListSet(l) == { l[i] : i \in 1..Len(l) }

\* every foreign key of constraint c references table t
ToTarget(c, t) == \A i \in 1..Len(c.columns) : Elements(c)[i].table = t

\* the predicates of constraint c of the table called name, in the order of its columns
PredicatesOf(name, c) ==
    [i \in 1..Len(c.columns) |->
        Eq(name, c.columns[i], Elements(c)[i].table, Elements(c)[i].column)]

\* the constraints of table lt to table t whose local columns are those of the list l
Selected(lt, l, t) ==
    { n \in 1..Len(lt.constraints) :
        /\ ToTarget(lt.constraints[n], t)
        /\ ListSet(lt.constraints[n].columns) = ListSet(l) }

Last(S) == CHOOSE n \in S : \A m \in S : m <= n

\* the joins come from constraints of lt that wholly reference t
FromTargetConstraints(lt, t, joins) ==
    \A p \in ListSet(joins[1]) \cup ListSet(joins[2]) :
        \E n \in 1..Len(lt.constraints) :
            /\ ToTarget(lt.constraints[n], t)
            /\ p \in ListSet(PredicatesOf(lt.name, lt.constraints[n]))

\* with local_cols given and remote_cols None: the primary join is the predicates
\* of the constraint over those columns (the last one scanned, should there be
\* several), empty without one, and the secondary join is empty
OneListJoins(lt, l, t, joins) ==
    /\ joins[2] = << >>
    /\ joins[1] = IF Selected(lt, l, t) = {} THEN << >>
                  ELSE PredicatesOf(lt.name, lt.constraints[Last(Selected(lt, l, t))])

\* C18: _get_join_clauses only returns predicates of foreign key constraints of
\* local_table whose every referenced column belongs to target_table; given a
\* non-empty local_cols and None as remote_cols, the primary join is the
\* predicates of the constraint whose local columns are those listed, in whatever
\* order they are listed, empty when there is none, and the secondary join is
\* empty; the call leaves its argument lists as they were
OneListSelectsConstraint ==
    /\ [](join_ret.returned =>
            /\ FromTargetConstraints(join_args.local_table, join_args.target_table,
                                     join_ret.value)
            /\ (join_args.local_cols1 # << >> /\ join_args.local_cols2 = NoCols) =>
                  OneListJoins(join_args.local_table, join_args.local_cols1,
                               join_args.target_table, join_ret.value))
    /\ [][join_args' = join_args]_vars

\* a call with the columns of a composite constraint listed in another order than
\* the constraint has them, on a table with a constraint to another table
OneListSelected ==
    /\ join_ret.returned
    /\ join_args.local_cols2 = NoCols
    /\ Len(join_args.local_cols1) = 2
    /\ Len(join_ret.value[1]) = 2
    /\ \E n \in 1..Len(join_args.local_table.constraints) :
          /\ ListSet(join_args.local_table.constraints[n].columns)
                = ListSet(join_args.local_cols1)
          /\ join_args.local_table.constraints[n].columns # join_args.local_cols1
    /\ \E n \in 1..Len(join_args.local_table.constraints) :
          ~ToTarget(join_args.local_table.constraints[n], join_args.target_table)

-----------------------------------------------------------------------------
(* The two slots of the join-clause deriver *)

\* the joins the other way round
Swapped(joins) == << joins[2], joins[1] >>

\* the call made, with the two column lists exchanged
SwappedCall ==
    _get_join_clauses(join_args.local_table, join_args.local_cols2,
                      join_args.local_cols1, join_args.target_table)

\* the entries of constraint_map that go to one of the joins
Assigned(items, keys) ==
    SelectSeq(items, LAMBDA c : \/ InPrimary(c.cols, Cols1, Cols2, keys)
                               \/ InSecondary(c.cols, Cols1, Cols2, keys))

\* the two joins together hold each assigned constraint once
AssignedOnce(items) ==
    Len(join_ret.value[1]) + Len(join_ret.value[2])
        = Len(Predicates(Assigned(items, KeysOf(items)), join_args.local_table.name))

\* C19, as stated: with the two lists exchanged the call returns the two joins
\* exchanged, and no constraint is in both joins
JoinSlotsSymmetric ==
    (join_ret.returned /\ join_args.local_cols2 # NoCols) =>
        /\ SwappedCall = Swapped(join_ret.value)
        /\ AssignedOnce(ConstraintMap(UsedConstraints(join_args.local_table.constraints,
                                                      join_args.target_table)))

\* both lists name the columns of one and the same constraint to the target
SameConstraintTwice == Cols1 = Cols2 /\ Cols1 \in CallKeys

\* C19, amended: the same, unless both lists name one and the same constraint,
\* which then goes to the primary join whichever way round the lists are given
JoinSlotsSymmetricApart ==
    (join_ret.returned /\ join_args.local_cols2 # NoCols) =>
        /\ ~SameConstraintTwice => SwappedCall = Swapped(join_ret.value)
        /\ SameConstraintTwice =>
              /\ SwappedCall = join_ret.value
              /\ join_ret.value[1] # << >>
              /\ join_ret.value[2] = << >>
        /\ AssignedOnce(ConstraintMap(UsedConstraints(join_args.local_table.constraints,
                                                      join_args.target_table)))

\* a call that has put one constraint into each join, the primary one inferred
\* from an empty list
BothSlotsFilled ==
    /\ join_ret.returned
    /\ join_args.local_cols1 = << >>
    /\ join_args.local_cols2 # NoCols
    /\ join_ret.value[1] # << >>
    /\ join_ret.value[2] # << >>

-----------------------------------------------------------------------------
(* Ambiguous inverses and the order of the build *)

\* the relationships of the target of r that are valid inverses of r
Candidates(r) ==
    { o \in Rels : relationships[o].entity = target(r) /\ is_inverse(o, r) }

\* some relationship names no inverse and has more than one valid inverse
AmbiguousDeclared ==
    \E r \in Rels : /\ relationships[r].inverse_name = NoName
                    /\ Cardinality(Candidates(r)) > 1

\* C20: when some relationship that names no inverse has two or more valid
\* inverses on its target, the build fails in whatever order the relationships
\* are processed: it never completes
AmbiguousInverseInEveryOrder ==
    AmbiguousDeclared => phase # "done"

-----------------------------------------------------------------------------
(* Every relationship navigable once the build is over *)

\* the deferred backref of r has been passed to the constructed property of
\* the resolved inverse of r
BackrefConsumed(r) ==
    /\ backref[r].set
    /\ _inverse[r] # NoneRel
    /\ property[_inverse[r]].set
    /\ "backref" \in DOMAIN property[_inverse[r]].kwargs
    /\ property[_inverse[r]].kwargs.backref = backref[r]

\* r can be navigated: it has its own property, or its backref was consumed
Navigable(r) == property[r].set \/ BackrefConsumed(r)

\* C21: once the four phases have run in order over all relationships, in any
\* order within a phase, every declared relationship is navigable: it has its
\* own constructed property, or its deferred backref has been consumed by the
\* constructed property of its resolved inverse; none is left with only an
\* unconsumed backref
AllNavigable ==
    phase = "done" => \A r \in Rels : Navigable(r)

-----------------------------------------------------------------------------
(* The foreign key constraints of a bridge table *)

\* constraint c has columns and all of them reference the table of entity e
RefersTo(c, e) == c.columns # << >> /\ ToTarget(c, Entities[e].tablename)

\* constraint c is named '<table of the owner of r>_<name of r>_fk' and carries
\* the onupdate and ondelete rules of r
NamedFor(c, r) ==
    /\ c.name = SourcePart(r) \o <<"_","f","k">>
    /\ c.onupdate = relationships[r].onupdate
    /\ c.ondelete = relationships[r].ondelete

\* table tab has a constraint to the table of the owner of r named for r, and
\* every constraint of tab that references that table is named for r
SideNamed(tab, r) ==
    /\ \E i \in DOMAIN tab.constraints :
          /\ ToTarget(tab.constraints[i], Entities[relationships[r].entity].tablename)
          /\ NamedFor(tab.constraints[i], r)
    /\ \A i \in DOMAIN tab.constraints :
          RefersTo(tab.constraints[i], relationships[r].entity)
          => NamedFor(tab.constraints[i], r)

\* a and b are a matched ManyToMany pair between two different entities whose
\* bridge table has been constructed
MatchedBridge(a, b) ==
    /\ IsKind(a, {"ManyToMany"}) /\ IsKind(b, {"ManyToMany"})
    /\ Paired(a, b)
    /\ relationships[a].entity # target(a)
    /\ secondary_table[a] # NoTable
    /\ Constructed(secondary_table[a])

\* C22: for a matched ManyToMany pair A (on E1) and B (on E2), E1 and E2
\* different, the constraint of the created bridge table that references E1's
\* table is named '<E1 table>_<A name>_fk' and carries A's onupdate and ondelete
\* rules, and the one that references E2's table is named '<E2 table>_<B name>_fk'
\* and carries B's rules, whichever of the two ran create_tables first
BridgeConstraintsNamed ==
    \A a, b \in Rels :
        MatchedBridge(a, b) => (SideNamed(TableOf(a), a) /\ SideNamed(TableOf(a), b))

====
